---- MODULE Spec2Model ----
(***************************************************************************)
(* Model of the clipboard utilities catcb.py, copipe.py and gitdiffcb.py.  *)
(*                                                                         *)
(* Strings are sequences of one-character strings, so that startswith,     *)
(* endswith, strip, fnmatch, os.path.join and os.path.relpath are computed *)
(* character by character.  Paths are POSIX paths (os.path.sep = "/",      *)
(* os.path.normcase is the identity).                                      *)
(***************************************************************************)
EXTENDS Integers, Sequences, FiniteSets, TLC

----------------------------------------------------------------------------
(* Strings *)

Sep == "/"

\* Unicode code points of the characters the model uses (sorted() compares them).
Ord(c) ==
  CASE c = "\n" -> 10 [] c = " " -> 32 [] c = "*" -> 42 [] c = "/" -> 47
    [] c = ":" -> 58 [] c = "?" -> 63 [] c = "[" -> 91 [] c = "]" -> 93
    [] c = "a" -> 97 [] c = "d" -> 100 [] c = "f" -> 102 [] c = "g" -> 103
    [] c = "x" -> 120 [] OTHER -> 0

\* str.startswith
StartsWith(s, p) == Len(p) <= Len(s) /\ SubSeq(s, 1, Len(p)) = p

\* str.endswith
EndsWith(s, p) == Len(p) <= Len(s) /\ SubSeq(s, Len(s) - Len(p) + 1, Len(s)) = p

\* c in s
Contains(s, c) == \E i \in 1..Len(s) : s[i] = c

\* str.rstrip(c)
RECURSIVE RStrip(_, _)
RStrip(s, c) ==
  IF Len(s) > 0 /\ s[Len(s)] = c THEN RStrip(SubSeq(s, 1, Len(s) - 1), c) ELSE s

\* s < t in Python's string order
RECURSIVE StrLess(_, _)
StrLess(s, t) ==
  IF t = <<>> THEN FALSE
  ELSE IF s = <<>> THEN TRUE
  ELSE IF Ord(Head(s)) # Ord(Head(t)) THEN Ord(Head(s)) < Ord(Head(t))
  ELSE StrLess(Tail(s), Tail(t))

\* sorted(list of strings): insertion sort, stable
RECURSIVE InsertSorted(_, _)
InsertSorted(x, l) ==
  IF l = <<>> THEN <<x>>
  ELSE IF StrLess(x, Head(l)) THEN <<x>> \o l
  ELSE <<Head(l)>> \o InsertSorted(x, Tail(l))

RECURSIVE Sorted(_)
Sorted(l) ==
  IF l = <<>> THEN <<>>
  ELSE InsertSorted(l[Len(l)], Sorted(SubSeq(l, 1, Len(l) - 1)))

----------------------------------------------------------------------------
(* fnmatch.fnmatch(name, pat): shell-style matching of the WHOLE name.     *)
(* "*" any run of characters ("/" included), "?" any one character,        *)
(* "[seq]" one character of seq, "[!seq]" one character not in seq, a "["  *)
(* without a closing "]" is a literal.  (No "-" ranges: "-" is not in the  *)
(* alphabet of the model.)                                                 *)

\* index of the "]" closing the class opened at pat[i] = "[", or 0 if none
RECURSIVE ScanClose(_, _)
ScanClose(pat, j) ==
  IF j > Len(pat) THEN 0
  ELSE IF pat[j] = "]" THEN j
  ELSE ScanClose(pat, j + 1)

ClassEnd(pat, i) ==
  LET j1 == IF i + 1 <= Len(pat) /\ pat[i + 1] = "!" THEN i + 2 ELSE i + 1
      j2 == IF j1 <= Len(pat) /\ pat[j1] = "]" THEN j1 + 1 ELSE j1
  IN ScanClose(pat, j2)

\* does character c match the class pat[i..j] (pat[i] = "[", pat[j] = "]")
ClassMatches(pat, i, j, c) ==
  LET stuff == SubSeq(pat, i + 1, j - 1)
  IN IF stuff = <<>> THEN FALSE
     ELSE IF stuff = <<"!">> THEN TRUE
     ELSE IF Head(stuff) = "!" THEN ~Contains(Tail(stuff), c)
     ELSE Contains(stuff, c)

RECURSIVE MatchFrom(_, _, _, _)
MatchFrom(name, pat, n, p) ==
  IF p > Len(pat) THEN n > Len(name)
  ELSE IF pat[p] = "*" THEN
    \E k \in n..(Len(name) + 1) : MatchFrom(name, pat, k, p + 1)
  ELSE IF n > Len(name) THEN FALSE
  ELSE IF pat[p] = "?" THEN MatchFrom(name, pat, n + 1, p + 1)
  ELSE IF pat[p] = "[" /\ ClassEnd(pat, p) # 0 THEN
    /\ ClassMatches(pat, p, ClassEnd(pat, p), name[n])
    /\ MatchFrom(name, pat, n + 1, ClassEnd(pat, p) + 1)
  ELSE name[n] = pat[p] /\ MatchFrom(name, pat, n + 1, p + 1)

fnmatch(name, pat) == MatchFrom(name, pat, 1, 1)

----------------------------------------------------------------------------
(* catcb.matches_any_pattern *)

\* the test of catcb.py line 43: the pattern is taken for a directory name
IsDirNamePattern(pattern) ==
  ~Contains(pattern, Sep) /\ ~Contains(pattern, "*") /\ ~Contains(pattern, "?")

\* DirPrefixHit comparing the whole path instead of its beginning
DirPrefixHitExact(path, pattern) ==
  IsDirNamePattern(pattern) /\ path = RStrip(pattern, "/") \o <<"/">>

\* DirPrefixHit looking for the directory at any depth
DirPrefixHitAnywhere(path, pattern) ==
  /\ IsDirNamePattern(pattern)
  /\ \E k \in 0..Len(path) :
       /\ k = 0 \/ path[k] = "/"
       /\ StartsWith(SubSeq(path, k + 1, Len(path)), RStrip(pattern, "/") \o <<"/">>)

\* line 44: the directory-prefix shortcut
DirPrefixHit(path, pattern) ==
  IsDirNamePattern(pattern) /\ StartsWith(path, RStrip(pattern, "/") \o <<"/">>)

RECURSIVE matches_any_pattern(_, _)
matches_any_pattern(path, patterns) ==
  IF patterns = <<>> THEN FALSE
  ELSE IF DirPrefixHit(path, Head(patterns)) THEN TRUE
  ELSE IF fnmatch(path, Head(patterns)) THEN TRUE
  ELSE matches_any_pattern(path, Tail(patterns))

----------------------------------------------------------------------------
(* The directory tree under the scanned directory *)

\* how many files a tree of the model holds at most
MaxFiles == 3

nF == <<"f">>
nGF == <<"g", "f">>
nD == <<"d">>
nA == <<"a">>
nCls == <<"[", "a", "]">>

\* the places a file can be at, each a sequence of path components
FilePlaces ==
  { <<nF>>, <<nGF>>, <<nD>>, <<nA>>, <<nD, nF>>, <<nD, nGF>>, <<nA, nD, nF>>,
    <<nCls, nF>> }

IsProperPrefix(p, q) == Len(p) < Len(q) /\ SubSeq(q, 1, Len(p)) = p

\* a tree is a set of files none of which is also a directory of another
IsTree(t) == \A p \in t, q \in t : ~IsProperPrefix(p, q)

Trees == { t \in SUBSET FilePlaces : Cardinality(t) <= MaxFiles /\ IsTree(t) }

\* the absolute path of the scanned directory (os.path.abspath of the argument)
BaseDir == <<"/", "b">>

\* os.path.join(a, b) for a relative b and an a that does not end in "/"
PathJoin(a, b) == a \o <<Sep>> \o b

\* os.path.relpath(path, start) for a path below start
RelPath(path, start) == SubSeq(path, Len(start) + 2, Len(path))

\* the absolute path of the directory with components dir below BaseDir
RECURSIVE DirPath(_)
DirPath(dir) ==
  IF dir = <<>> THEN BaseDir
  ELSE PathJoin(DirPath(SubSeq(dir, 1, Len(dir) - 1)), dir[Len(dir)])

\* the non-directory entries of directory dir (the `files` of os.walk)
FilesIn(t, dir) == { p[Len(p)] : p \in { q \in t : Len(q) = Len(dir) + 1 /\ IsProperPrefix(dir, q) } }

\* the subdirectories of directory dir (the `dirs` of os.walk)
DirsIn(t, dir) == { p[Len(dir) + 1] : p \in { q \in t : Len(q) > Len(dir) + 1 /\ IsProperPrefix(dir, q) } }

\* the orders os.scandir may list a set of entries in
Listings(S) == { l \in [1..Cardinality(S) -> S] : \A i, j \in 1..Cardinality(S) : l[i] = l[j] => i = j }

----------------------------------------------------------------------------
(* Arguments *)

pF == <<"f">>
pDStar == <<"d", "*">>
pQF == <<"?", "f">>
pD == <<"d">>
pDSlash == <<"d", "/">>
pCls == <<"[", "a", "]">>
pStarF == <<"*", "f">>
pAStar == <<"a", "/", "*">>

\* the values of -f/--file (None and the empty list are both falsy: <<>>)
IncludeLists == { <<>>, <<pF>>, <<pDStar>>, <<pQF>>, <<pCls>>, <<pDStar, pF>> }

\* the values of -x/--exclude
ExcludeLists ==
  { <<>>, <<pD>>, <<pDSlash>>, <<pCls>>, <<pStarF>>, <<pAStar>>, <<pQF>>,
    <<pStarF, pD>>, <<pD, pAStar>>, <<pCls, pD>> }

\* the values of copipe's -e/--extension
ExtensionLists == { <<>>, <<pF>>, <<nGF>>, <<<<"]">>, nGF>> }

----------------------------------------------------------------------------
(* State *)

VARIABLES
  prog,           \* which script runs: "catcb", "copipe" or "gitdiffcb"
  pc,             \* where the run is
  tree,           \* the files below the scanned directory
  args,           \* the parsed command line
  walk,           \* os.walk: the directories still to be yielded, first first
  matched_files,  \* collect_files: the list being built
  todo,           \* build_output: what is left of sorted(file_paths)
  contents,       \* build_output: the blocks so far
  reads,          \* the calls of open(), in order: the path and what came of it
  output,         \* catcb/copipe main: the value of build_output
  clipboard,      \* the arguments of the calls of pyperclip.copy, in order
  stdout,         \* what was printed to standard output, one print per element
  stderr,         \* what was written to standard error
  exitcode,       \* the exit status of the process, Running until it ends
  git_calls,      \* the git command lines run, in order
  diff_output,    \* gitdiffcb main: the captured stdout of git diff
  diff_rc         \* the return code of git diff (the code never reads it)

fsVars == <<prog, tree, args>>
collectVars == <<walk, matched_files>>
buildVars == <<todo, contents, reads, output>>
ioVars == <<clipboard, stdout, stderr, exitcode>>
gitVars == <<git_calls, diff_output, diff_rc>>

vars == <<pc, fsVars, collectVars, buildVars, ioVars, gitVars>>

\* exitcode while the process runs
Running == -1

NoArgs ==
  [recursive |-> FALSE, file |-> <<>>, exclude |-> <<>>, extension |-> <<>>,
   preview |-> FALSE, verbose |-> FALSE, staged |-> FALSE, cached |-> FALSE]

\* the state of everything a run has not touched yet
Untouched ==
  /\ walk = << <<>> >>
  /\ matched_files = <<>>
  /\ todo = <<>>
  /\ contents = <<>>
  /\ reads = <<>>
  /\ output = <<>>
  /\ clipboard = <<>>
  /\ stdout = <<>>
  /\ stderr = <<>>
  /\ exitcode = Running
  /\ git_calls = <<>>
  /\ diff_output = <<>>
  /\ diff_rc = 0

\* str(n) for n >= 0
RECURSIVE IntToStr(_)
IntToStr(n) ==
  LET digit == <<"0", "1", "2", "3", "4", "5", "6", "7", "8", "9">>[(n % 10) + 1]
  IN IF n < 10 THEN <<digit>> ELSE Append(IntToStr(n \div 10), digit)

\* sep.join(list)
RECURSIVE Join(_, _)
Join(sep, l) ==
  IF l = <<>> THEN <<>>
  ELSE IF Len(l) = 1 THEN l[1]
  ELSE l[1] \o sep \o Join(sep, Tail(l))

\* an uncaught exception: the interpreter prints a traceback and exits with 1
Traceback ==
  <<"T", "r", "a", "c", "e", "b", "a", "c", "k", " ", "(", "m", "o", "s",
    "t", " ", "r", "e", "c", "e", "n", "t", " ", "c", "a", "l", "l", " ",
    "l", "a", "s", "t", ")", ":">>

----------------------------------------------------------------------------
(* collect_files *)

\* CatcbFilter testing the include patterns against the relative path
RECURSIVE CatcbFilterIncludeOnRelpath(_, _, _, _)
CatcbFilterIncludeOnRelpath(root, files, includes, excludes) ==
  IF files = <<>> THEN <<>>
  ELSE
    LET filename == Head(files)
        full_path == PathJoin(root, filename)
        relpath == RelPath(full_path, BaseDir)
        rest == CatcbFilterIncludeOnRelpath(root, Tail(files), includes, excludes)
    IN IF includes # <<>> /\ ~matches_any_pattern(relpath, includes) THEN rest
       ELSE IF excludes # <<>> /\ matches_any_pattern(relpath, excludes) THEN rest
       ELSE <<relpath>> \o rest

\* catcb.py lines 67-79: the files of one directory, filtered, as relative paths
RECURSIVE CatcbFilter(_, _, _, _)
CatcbFilter(root, files, includes, excludes) ==
  IF files = <<>> THEN <<>>
  ELSE
    LET filename == Head(files)
        full_path == PathJoin(root, filename)
        relpath == RelPath(full_path, BaseDir)
        rest == CatcbFilter(root, Tail(files), includes, excludes)
    IN IF includes # <<>> /\ ~matches_any_pattern(filename, includes) THEN rest
       ELSE IF excludes # <<>> /\ matches_any_pattern(relpath, excludes) THEN rest
       ELSE <<relpath>> \o rest

\* copipe.py lines 42-48
RECURSIVE CopipeFilter(_, _, _)
CopipeFilter(root, files, extensions) ==
  IF files = <<>> THEN <<>>
  ELSE
    LET filename == Head(files)
        filepath == PathJoin(root, filename)
        relpath == RelPath(filepath, BaseDir)
        rest == CopipeFilter(root, Tail(files), extensions)
    IN IF extensions # <<>> /\ ~(\E i \in 1..Len(extensions) : EndsWith(filename, extensions[i]))
       THEN rest
       ELSE <<relpath>> \o rest

\* WalkRest forgetting the directories that were pending
WalkRestDropsSiblings(pending, dirs, recursive) ==
  IF ~recursive THEN <<>>
  ELSE [i \in 1..Len(dirs) |-> Append(Head(pending), dirs[i])]

\* WalkRest without the `break`
WalkRestIgnoresFlag(pending, dirs, recursive) ==
  [i \in 1..Len(dirs) |-> Append(Head(pending), dirs[i])] \o Tail(pending)

\* what one iteration of `for root, _, files in os.walk(base_dir)` leaves to
\* walk: nothing after the `break`, else the subdirectories before the rest
WalkRest(pending, dirs, recursive) ==
  IF ~recursive THEN <<>>
  ELSE [i \in 1..Len(dirs) |-> Append(Head(pending), dirs[i])] \o Tail(pending)

\* catcb.collect_files: one iteration of the os.walk loop
CatcbWalk ==
  /\ prog = "catcb" /\ pc = "collect_files" /\ walk # <<>>
  /\ \E files \in Listings(FilesIn(tree, Head(walk))),
        dirs \in Listings(DirsIn(tree, Head(walk))) :
       /\ matched_files' = matched_files \o
            CatcbFilter(DirPath(Head(walk)), files, args.file, args.exclude)
       /\ walk' = WalkRest(walk, dirs, args.recursive)
  /\ UNCHANGED <<pc, fsVars, buildVars, ioVars, gitVars>>

\* copipe.collect_files: one iteration of the os.walk loop
CopipeWalk ==
  /\ prog = "copipe" /\ pc = "collect_files" /\ walk # <<>>
  /\ \E files \in Listings(FilesIn(tree, Head(walk))),
        dirs \in Listings(DirsIn(tree, Head(walk))) :
       /\ matched_files' = matched_files \o
            CopipeFilter(DirPath(Head(walk)), files, args.extension)
       /\ walk' = WalkRest(walk, dirs, args.recursive)
  /\ UNCHANGED <<pc, fsVars, buildVars, ioVars, gitVars>>

\* collect_files: the loop is over, `return matched_files`
CollectReturn ==
  /\ prog \in {"catcb", "copipe"} /\ pc = "collect_files" /\ walk = <<>>
  /\ pc' = "collected"
  /\ UNCHANGED <<fsVars, collectVars, buildVars, ioVars, gitVars>>

\* a call of collect_files(base_dir, recursive, includes, excludes) or
\* collect_files(base_dir, recursive, extensions) on any tree
InitCollect ==
  /\ prog \in {"catcb", "copipe"}
  /\ pc = "collect_files"
  /\ tree \in Trees
  /\ \/ /\ prog = "catcb"
        /\ \E r \in BOOLEAN, i \in IncludeLists, x \in ExcludeLists :
             args = [NoArgs EXCEPT !.recursive = r, !.file = i, !.exclude = x]
     \/ /\ prog = "copipe"
        /\ \E r \in BOOLEAN, e \in ExtensionLists :
             args = [NoArgs EXCEPT !.recursive = r, !.extension = e]
  /\ Untouched

NextCollect == CatcbWalk \/ CopipeWalk \/ CollectReturn

SpecCollect == InitCollect /\ [][NextCollect]_vars

----------------------------------------------------------------------------
(* build_output *)

\* what open()/read() of a file does: its text, or an exception with a message
\* (the file was removed, may not be read, is not UTF-8).  A text and a
\* message are data of the environment: one opaque element each.
ReadOutcomes ==
  { [ok |-> TRUE, data |-> <<"text">>],
    [ok |-> FALSE, data |-> <<"ENOENT">>],
    [ok |-> FALSE, data |-> <<"UnicodeDecodeError">>] }

ErrorOpen ==
  <<":", " ", "[", "E", "r", "r", "o", "r", " ", "r", "e", "a", "d", "i",
    "n", "g", " ", "f", "i", "l", "e", ":", " ">>

\* CatcbBlock with an error marker that does not name the file
CatcbBlockErrorNoPath(relpath, r) ==
  IF r.ok THEN relpath \o <<":", "\n">> \o r.data
  ELSE Tail(Tail(ErrorOpen)) \o r.data \o <<"]">>

\* catcb.py lines 94 and 96
CatcbBlock(relpath, r) ==
  IF r.ok THEN relpath \o <<":", "\n">> \o r.data
  ELSE relpath \o ErrorOpen \o r.data \o <<"]">>

\* copipe.py lines 71, 72 and 74
CopipeBlock(relpath, r) ==
  IF r.ok THEN LET header == relpath \o <<":">> IN header \o <<"\n">> \o r.data
  ELSE relpath \o ErrorOpen \o r.data \o <<"]">>

\* BuildStart without the `return` that ends a --preview run
BuildStartIgnoresPreview ==
  /\ pc = "collected"
  /\ prog \in {"catcb", "copipe"}
  /\ todo' = Sorted(matched_files)
  /\ contents' = <<>>
  /\ pc' = "build_output"
  /\ UNCHANGED <<fsVars, collectVars, reads, output, ioVars, gitVars>>

\* main calls build_output(base_dir, files): `for relpath in sorted(file_paths)`
BuildStart ==
  /\ pc = "collected"
  /\ \/ prog = "copipe"
     \/ prog = "catcb" /\ ~args.preview
  /\ todo' = Sorted(matched_files)
  /\ contents' = <<>>
  /\ pc' = "build_output"
  /\ UNCHANGED <<fsVars, collectVars, reads, output, ioVars, gitVars>>

\* one iteration of the loop of build_output
BuildStep ==
  /\ pc = "build_output" /\ todo # <<>>
  /\ LET relpath == Head(todo)
         full_path == PathJoin(BaseDir, relpath)
     IN \E r \in ReadOutcomes :
          /\ reads' = Append(reads, [path |-> full_path, result |-> r])
          /\ contents' = Append(contents,
               IF prog = "catcb" THEN CatcbBlock(relpath, r) ELSE CopipeBlock(relpath, r))
  /\ todo' = Tail(todo)
  /\ UNCHANGED <<pc, fsVars, collectVars, output, ioVars, gitVars>>

\* build_output: `return "\n\n".join(contents)`
BuildReturn ==
  /\ pc = "build_output" /\ todo = <<>>
  /\ output' = Join(<<"\n", "\n">>, contents)
  /\ pc' = "built"
  /\ UNCHANGED <<fsVars, collectVars, todo, contents, reads, ioVars, gitVars>>

----------------------------------------------------------------------------
(* catcb.main and copipe.main *)

MatchedFilesMsg ==
  <<"M", "a", "t", "c", "h", "e", "d", " ", "f", "i", "l", "e", "s", ":">>

TotalOpen ==
  <<"\n", "T", "o", "t", "a", "l", ":", " ">>

TotalClose ==
  <<" ", "f", "i", "l", "e", "(", "s", ")", " ", "m", "a", "t", "c", "h",
    "e", "d", ".">>

CopiedMsg ==
  <<"C", "o", "p", "i", "e", "d", " ", "t", "o", " ", "c", "l", "i", "p",
    "b", "o", "a", "r", "d", ".">>

\* catcb.py lines 121-126
CatcbPreview ==
  /\ prog = "catcb" /\ pc = "collected" /\ args.preview
  /\ stdout' = stdout \o <<MatchedFilesMsg>> \o Sorted(matched_files)
                 \o << TotalOpen \o IntToStr(Len(matched_files)) \o TotalClose >>
  /\ pc' = "done"
  /\ exitcode' = 0
  /\ UNCHANGED <<fsVars, collectVars, buildVars, clipboard, stderr, gitVars>>

\* catcb.py lines 130-134, copipe.py lines 112-116; pyperclip.copy may raise
CopyOutput ==
  /\ prog \in {"catcb", "copipe"} /\ pc = "built"
  /\ clipboard' = Append(clipboard, output)
  /\ \/ /\ stdout' = stdout \o (IF args.verbose THEN <<output>> ELSE <<>>) \o <<CopiedMsg>>
        /\ pc' = "done"
        /\ exitcode' = 0
        /\ UNCHANGED stderr
     \/ /\ stdout' = stdout \o (IF args.verbose THEN <<output>> ELSE <<>>)
        /\ stderr' = Append(stderr, Traceback)
        /\ pc' = "crashed"
        /\ exitcode' = 1
  /\ UNCHANGED <<fsVars, collectVars, buildVars, gitVars>>

----------------------------------------------------------------------------
(* gitdiffcb *)

\* how long a captured diff of the model is at most
MaxDiffLen == 2

DiffChars == {" ", "\n", "x"}

RECURSIVE StringsUpTo(_, _)
StringsUpTo(chars, n) ==
  IF n = 0 THEN { <<>> }
  ELSE LET shorter == StringsUpTo(chars, n - 1)
       IN shorter \cup { Append(s, c) : s \in shorter, c \in chars }

DiffOutputs == StringsUpTo(DiffChars, MaxDiffLen)

\* str.isspace of one character
IsSpace(c) == c \in {" ", "\n", "\t", "\r"}

\* str.strip()
RECURSIVE LStrip(_)
LStrip(s) == IF s # <<>> /\ IsSpace(Head(s)) THEN LStrip(Tail(s)) ELSE s

RECURSIVE RStripSpace(_)
RStripSpace(s) ==
  IF s # <<>> /\ IsSpace(s[Len(s)]) THEN RStripSpace(SubSeq(s, 1, Len(s) - 1)) ELSE s

\* Strip that strips nothing (`if not diff_output:`)
StripNothing(s) == s

Strip(s) == RStripSpace(LStrip(s))

\* the character U+0060, which a string of this notation cannot hold
Backquote == "backquote"

NotRepoMsg ==
  <<"E", "r", "r", "o", "r", ":", " ", "N", "o", "t", " ", "a", " ", "G",
    "i", "t", " ", "r", "e", "p", "o", "s", "i", "t", "o", "r", "y", ".">>

NoChangesMsg ==
  <<"N", "o", " ", "c", "h", "a", "n", "g", "e", "s", " ", "f", "o", "u",
    "n", "d", ".", " ", "N", "o", "t", "h", "i", "n", "g", " ", "c", "o",
    "p", "i", "e", "d", ".">>

CopiedDiffOpen ==
  <<"C", "o", "p", "i", "e", "d", " ", Backquote, "g", "i", "t", " ", "d",
    "i", "f", "f", " ">>

CopiedDiffMid ==
  <<Backquote, " ", "t", "o", " ", "c", "l", "i", "p", "b", "o", "a", "r",
    "d", ".", " ", "(">>

CopiedDiffClose ==
  <<" ", "c", "h", "a", "r", "a", "c", "t", "e", "r", "s", ")">>

LabelStaged ==
  <<"-", "-", "s", "t", "a", "g", "e", "d">>

LabelCached ==
  <<"-", "-", "c", "a", "c", "h", "e", "d">>

\* gitdiffcb.py lines 38-44: the command of is_git_repository
RevParseCmd == <<"git", "rev-parse", "--is-inside-work-tree">>

\* gitdiffcb.py lines 61-63: the command of get_git_diff
DiffCmd(staged) ==
  <<"git", "--no-pager", "diff">> \o (IF staged THEN <<"--cached">> ELSE <<>>)

\* gitdiffcb.py line 114
OptionLabel(a) == IF a.staged THEN LabelStaged ELSE IF a.cached THEN LabelCached ELSE <<>>

\* main calls is_git_repository(current_dir): git rev-parse exits 0 (True),
\* exits non-zero (CalledProcessError, False), or git is not installed
\* (FileNotFoundError, which nothing catches)
CheckRepo ==
  /\ prog = "gitdiffcb" /\ pc = "Start"
  /\ git_calls' = Append(git_calls, RevParseCmd)
  /\ \/ /\ pc' = "IsRepo"
        /\ UNCHANGED <<stderr, exitcode>>
     \/ /\ pc' = "NotRepo"
        /\ UNCHANGED <<stderr, exitcode>>
     \/ /\ pc' = "crashed"
        /\ stderr' = Append(stderr, Traceback)
        /\ exitcode' = 1
  /\ UNCHANGED <<fsVars, collectVars, buildVars, clipboard, stdout, diff_output, diff_rc>>

\* Fail without the sys.exit(1): the message is written and main goes on
FailGoesOn ==
  /\ prog = "gitdiffcb" /\ pc = "NotRepo"
  /\ stderr' = Append(stderr, NotRepoMsg)
  /\ pc' = "IsRepo"
  /\ UNCHANGED <<fsVars, collectVars, buildVars, clipboard, stdout, exitcode, gitVars>>

\* gitdiffcb.py lines 98-100
Fail ==
  /\ prog = "gitdiffcb" /\ pc = "NotRepo"
  /\ stderr' = Append(stderr, NotRepoMsg)
  /\ exitcode' = 1
  /\ pc' = "Fail"
  /\ UNCHANGED <<fsVars, collectVars, buildVars, clipboard, stdout, gitVars>>

\* gitdiffcb.py lines 102-105: get_git_diff and the test of its value; the
\* return code and the stderr of git diff are captured and never read.
\* subprocess.run(text=True) raises when the output is not text in the
\* encoding of the locale (UnicodeDecodeError, which nothing catches).
RunDiff ==
  /\ prog = "gitdiffcb" /\ pc = "IsRepo"
  /\ git_calls' = Append(git_calls, DiffCmd(args.staged \/ args.cached))
  /\ \/ /\ \E out \in DiffOutputs, rc \in {0, 1, 128} :
             /\ diff_output' = out
             /\ diff_rc' = rc
             /\ pc' = IF Strip(out) = <<>> THEN "Empty" ELSE "NonEmpty"
        /\ UNCHANGED ioVars
     \/ /\ pc' = "crashed"
        /\ stderr' = Append(stderr, Traceback)
        /\ exitcode' = 1
        /\ UNCHANGED <<diff_output, diff_rc, clipboard, stdout>>
  /\ UNCHANGED <<fsVars, collectVars, buildVars>>

\* gitdiffcb.py lines 106-107
ReportNoChange ==
  /\ prog = "gitdiffcb" /\ pc = "Empty"
  /\ stdout' = Append(stdout, NoChangesMsg)
  /\ exitcode' = 0
  /\ pc' = "done"
  /\ UNCHANGED <<fsVars, collectVars, buildVars, clipboard, stderr, gitVars>>

\* gitdiffcb.py lines 109-116; pyperclip.copy may raise
CopyAndReport ==
  /\ prog = "gitdiffcb" /\ pc = "NonEmpty"
  /\ clipboard' = Append(clipboard, diff_output)
  /\ \/ /\ stdout' = stdout \o (IF args.verbose THEN <<diff_output>> ELSE <<>>)
             \o << CopiedDiffOpen \o OptionLabel(args) \o CopiedDiffMid
                   \o IntToStr(Len(diff_output)) \o CopiedDiffClose >>
        /\ exitcode' = 0
        /\ pc' = "done"
        /\ UNCHANGED stderr
     \/ /\ stderr' = Append(stderr, Traceback)
        /\ exitcode' = 1
        /\ pc' = "crashed"
        /\ UNCHANGED stdout
  /\ UNCHANGED <<fsVars, collectVars, buildVars, gitVars>>

----------------------------------------------------------------------------
(* A run of one of the three scripts *)

\* how many files the tree of a whole run holds at most
MaxRunFiles == 2

RunTrees == { t \in Trees : Cardinality(t) <= MaxRunFiles }

Init ==
  /\ prog \in {"catcb", "copipe", "gitdiffcb"}
  /\ \/ /\ prog = "catcb"
        /\ pc = "collect_files"
        /\ tree \in RunTrees
        /\ \E r, p, v \in BOOLEAN, i \in IncludeLists, x \in ExcludeLists :
             args = [NoArgs EXCEPT !.recursive = r, !.file = i, !.exclude = x,
                                   !.preview = p, !.verbose = v]
     \/ /\ prog = "copipe"
        /\ pc = "collect_files"
        /\ tree \in RunTrees
        /\ \E r, v \in BOOLEAN, e \in ExtensionLists :
             args = [NoArgs EXCEPT !.recursive = r, !.extension = e, !.verbose = v]
     \/ /\ prog = "gitdiffcb"
        /\ pc = "Start"
        /\ tree = {}
        /\ \E st, ca, v \in BOOLEAN :
             args = [NoArgs EXCEPT !.staged = st, !.cached = ca, !.verbose = v]
  /\ Untouched

Next ==
  \/ CatcbWalk
  \/ CopipeWalk
  \/ CollectReturn
  \/ CatcbPreview
  \/ BuildStart
  \/ BuildStep
  \/ BuildReturn
  \/ CopyOutput
  \/ CheckRepo
  \/ Fail
  \/ RunDiff
  \/ ReportNoChange
  \/ CopyAndReport

Spec == Init /\ [][Next]_vars

----------------------------------------------------------------------------
(* Vocabulary of the properties *)

\* the relative path of the file at place p, with "/" between the components
RECURSIVE RelOf(_)
RelOf(p) == IF Len(p) = 1 THEN p[1] ELSE p[1] \o <<"/">> \o RelOf(Tail(p))

\* the basename of the file at place p
BaseOf(p) == p[Len(p)]

\* the paths collect_files returned
Returned == { matched_files[k] : k \in 1..Len(matched_files) }

\* a plain name: not empty, no wildcard ("*", "?", a character class), no separator
PlainName(d) == d # <<>> /\ \A k \in 1..Len(d) : d[k] \notin {"*", "?", "[", "]", "/"}

\* the pattern holds a wildcard ("*", "?", a character class) or a separator
WildOrSep(pat) ==
  \/ \E k \in 1..Len(pat) : pat[k] \in {"*", "?", "/"}
  \/ \E i, j \in 1..Len(pat) : i < j /\ pat[i] = "[" /\ pat[j] = "]"

\* the basename of p glob-matches an include pattern, or there is none
IncludePasses(p) ==
  args.file = <<>> \/ \E k \in 1..Len(args.file) : fnmatch(BaseOf(p), args.file[k])

\* collect_files of catcb has returned
CatcbCollected == prog = "catcb" /\ pc = "collected"

----------------------------------------------------------------------------
(* Properties of collect_files, checked under SpecCollect *)

\* C1: a recursive collect_files of catcb returns a file if and only if its
\* basename glob-matches an include pattern (or there is none) and its relative
\* path is not matched by matches_any_pattern against a non-empty exclude list.
C1_FilterContract ==
  (CatcbCollected /\ args.recursive) =>
    \A p \in tree :
      (RelOf(p) \in Returned) <=>
        /\ IncludePasses(p)
        /\ ~(args.exclude # <<>> /\ matches_any_pattern(RelOf(p), args.exclude))

\* a file in a subdirectory whose path, not its basename, matches an include
\* pattern was left out, and another file was returned past a non-empty exclude list
C1_Witness ==
  /\ CatcbCollected /\ args.recursive /\ args.exclude # <<>>
  /\ \E p \in tree :
       /\ Len(p) > 1
       /\ \E k \in 1..Len(args.file) : fnmatch(RelOf(p), args.file[k])
       /\ RelOf(p) \notin Returned
  /\ Returned # {}

\* C2: with no filter and recursion, collect_files (catcb and copipe) returns
\* every file of the tree as its relative path, each exactly once.
C2_AllFiles ==
  ( /\ pc = "collected" /\ args.recursive
    /\ args.file = <<>> /\ args.exclude = <<>> /\ args.extension = <<>> ) =>
    /\ Returned = { RelOf(p) : p \in tree }
    /\ Len(matched_files) = Cardinality(tree)

\* three files at three depths were all returned
C2_Witness ==
  /\ pc = "collected" /\ args.recursive
  /\ args.file = <<>> /\ args.exclude = <<>> /\ args.extension = <<>>
  /\ \E p, q, r \in tree : Len(p) = 1 /\ Len(q) = 2 /\ Len(r) = 3
  /\ Len(matched_files) = 3

\* C3: when catcb's exclude list holds a plain directory name d, no returned
\* path begins with "d/", whatever the include list and the recursion flag.
C3_DirExcluded ==
  CatcbCollected =>
    \A k \in 1..Len(args.exclude) :
      PlainName(args.exclude[k]) =>
        \A m \in Returned : ~StartsWith(m, args.exclude[k] \o <<"/">>)

\* a file below d whose basename matches an include pattern was left out
\* because d is excluded, while another file was returned
C3_Witness ==
  /\ CatcbCollected /\ args.recursive /\ args.file # <<>>
  /\ \E k \in 1..Len(args.exclude) :
       /\ PlainName(args.exclude[k])
       /\ \E p \in tree :
            /\ StartsWith(RelOf(p), args.exclude[k] \o <<"/">>)
            /\ IncludePasses(p)
            /\ RelOf(p) \notin Returned
  /\ Returned # {}

\* the files of the base directory itself that pass the filters of the script
PassesFilters(p) ==
  IF prog = "catcb"
  THEN IncludePasses(p) /\ ~(args.exclude # <<>> /\ matches_any_pattern(RelOf(p), args.exclude))
  ELSE args.extension = <<>> \/ \E k \in 1..Len(args.extension) : EndsWith(BaseOf(p), args.extension[k])

\* C8: without recursion collect_files (catcb and copipe) returns exactly the
\* files of the base directory itself that pass the filters, and no path with
\* a separator.
C8_NonRecursive ==
  (pc = "collected" /\ ~args.recursive) =>
    /\ \A m \in Returned : ~Contains(m, "/")
    /\ \A p \in tree : (Len(p) = 1 /\ PassesFilters(p)) => RelOf(p) \in Returned
    /\ Returned \subseteq { RelOf(p) : p \in { q \in tree : Len(q) = 1 } }

\* a tree with a file in a subdirectory that passes the filters, walked
\* without recursion: a file of the base directory was returned
C8_Witness ==
  /\ pc = "collected" /\ ~args.recursive
  /\ \E p \in tree : Len(p) > 1 /\ PassesFilters(p)
  /\ Returned # {}

\* C10: with the exclude list [d], d a plain name, a recursive collect_files
\* of catcb leaves out exactly the files whose relative path is d or begins
\* with "d/" (among those the include list passes); "a/d/f" is returned.
C10_AnchoredAtBase ==
  ( /\ CatcbCollected /\ args.recursive
    /\ Len(args.exclude) = 1 /\ PlainName(args.exclude[1]) ) =>
    \A p \in tree :
      LET d == args.exclude[1]
          excluded == RelOf(p) = d \/ StartsWith(RelOf(p), d \o <<"/">>)
      IN /\ matches_any_pattern(RelOf(p), args.exclude) <=> excluded
         /\ (RelOf(p) \in Returned) <=> (IncludePasses(p) /\ ~excluded)

\* with d excluded, "d/f" was left out and "a/d/f" was returned
C10_Witness ==
  /\ CatcbCollected /\ args.recursive /\ args.exclude = <<pD>>
  /\ <<nD, nF>> \in tree /\ RelOf(<<nD, nF>>) \notin Returned
  /\ <<nA, nD, nF>> \in tree /\ RelOf(<<nA, nD, nF>>) \in Returned

\* C9: an exclude pattern that holds a wildcard or a separator leaves a file
\* out only if the whole relative path glob-matches it: with an exclude list
\* of such patterns only, a file the include list passes is left out of a
\* recursive collect_files only if its path glob-matches one of them.
C9_ShortcutOnlyForPlainNames ==
  ( /\ CatcbCollected /\ args.recursive
    /\ \A k \in 1..Len(args.exclude) : WildOrSep(args.exclude[k]) ) =>
    \A p \in tree :
      /\ \A k \in 1..Len(args.exclude) :
           matches_any_pattern(RelOf(p), <<args.exclude[k]>>) => fnmatch(RelOf(p), args.exclude[k])
      /\ (IncludePasses(p) /\ RelOf(p) \notin Returned) =>
           \E k \in 1..Len(args.exclude) : fnmatch(RelOf(p), args.exclude[k])

----------------------------------------------------------------------------
(* Properties of whole runs, checked under Spec *)

\* build_output of catcb or copipe has returned
Built == prog \in {"catcb", "copipe"} /\ pc \in {"built", "done", "crashed"} /\ ~args.preview

\* C4: build_output returns whatever reads fail: it opens each matched path
\* once, a failed read gives the block "<path>: [Error reading file: <message>]",
\* a read that succeeds "<path>:\n<text>", each path has exactly one block and
\* there are as many blocks as matched paths.
C4_OneBlockPerPath ==
  /\ pc = "build_output" =>
       /\ exitcode = Running /\ stderr = <<>>
       /\ Len(contents) + Len(todo) = Len(matched_files)
  /\ Built =>
       /\ Len(contents) = Len(matched_files)
       /\ Len(reads) = Len(matched_files)
       /\ \A m \in Returned :
            Cardinality({ k \in 1..Len(contents) : StartsWith(contents[k], m \o <<":">>) }) = 1
       /\ \A k \in 1..Len(contents) :
            \E m \in Returned :
              /\ reads[k].path = BaseDir \o <<"/">> \o m
              /\ contents[k] =
                   IF reads[k].result.ok
                   THEN m \o <<":", "\n">> \o reads[k].result.data
                   ELSE m \o <<":", " ", "[">> \o SubSeq(ErrorOpen, 4, Len(ErrorOpen))
                          \o reads[k].result.data \o <<"]">>
       /\ output = Join(<<"\n", "\n">>, contents)

\* build_output returned two blocks, one for a file it read and one for a
\* file it could not read
C4_Witness ==
  /\ Built /\ pc = "built" /\ Len(contents) = 2
  /\ \E j, k \in 1..Len(reads) : reads[j].result.ok /\ ~reads[k].result.ok

\* C5: when the repository check of gitdiffcb fails, the next step ends the
\* run in Fail with a non-zero exit code and a message on stderr; git diff was
\* not run and the clipboard was not written, and nothing follows Fail.
C5_NotRepoFails ==
  [][ /\ pc = "NotRepo" =>
           /\ pc' = "Fail"
           /\ exitcode' # 0 /\ exitcode' # Running
           /\ stderr' = <<NotRepoMsg>>
           /\ clipboard' = <<>>
           /\ git_calls' = <<RevParseCmd>>
      /\ pc = "Fail" => UNCHANGED vars ]_vars

\* a run of gitdiffcb that ended in Fail
C5_Witness ==
  prog = "gitdiffcb" /\ pc = "Fail" /\ exitcode = 1 /\ clipboard = <<>>

\* the string is empty or holds only whitespace
Blank(s) == \A k \in 1..Len(s) : s[k] \in {" ", "\n", "\t", "\r"}

\* git diff has been run and its standard output captured (a run that
\* crashed with the clipboard untouched crashed before the capture)
DiffRan ==
  /\ prog = "gitdiffcb" /\ Len(git_calls) = 2
  /\ ~(pc = "crashed" /\ clipboard = <<>>)

\* C6: in a repository, gitdiffcb with an empty or whitespace-only captured
\* diff reports "no changes", exits with 0 and does not write the clipboard,
\* whatever the return code of git diff; the clipboard is written exactly
\* when the captured diff is not blank.
C6_BlankDiffNotCopied ==
  /\ (DiffRan /\ Blank(diff_output)) =>
       /\ clipboard = <<>>
       /\ pc \in {"Empty", "done"}
       /\ pc = "done" => (exitcode = 0 /\ stdout = <<NoChangesMsg>>)
  /\ (DiffRan /\ pc \in {"done", "crashed"}) =>
       /\ clipboard # <<>> <=> ~Blank(diff_output)
       /\ clipboard # <<>> => clipboard = <<diff_output>>

\* git diff failed with a whitespace-only output: "no changes", nothing copied
C6_Witness ==
  /\ DiffRan /\ pc = "done" /\ diff_rc # 0
  /\ diff_output # <<>> /\ Blank(diff_output)
  /\ clipboard = <<>> /\ exitcode = 0

\* C7: no run of catcb, copipe or gitdiffcb writes the clipboard more than
\* once; a catcb run with --preview writes it never, opens no file, never
\* enters build_output and prints the sorted matched paths and their count.
C7_ClipboardAtMostOnce ==
  /\ Len(clipboard) <= 1
  /\ (prog = "catcb" /\ args.preview) =>
       /\ clipboard = <<>>
       /\ reads = <<>>
       /\ pc \in {"collect_files", "collected", "done"}
       /\ pc = "done" =>
            /\ Len(stdout) = Len(matched_files) + 2
            /\ { stdout[k] : k \in 2..(Len(stdout) - 1) } = Returned
            /\ stdout[Len(stdout)] = TotalOpen \o IntToStr(Len(matched_files)) \o TotalClose

\* a --preview run that listed two files has ended
C7_Witness ==
  /\ prog = "catcb" /\ args.preview /\ pc = "done"
  /\ Len(matched_files) = 2 /\ clipboard = <<>>

====
